---------------------------- MODULE Spec2Model ----------------------------
(***************************************************************************)
(* Model of src/main.py: a batch utility that reads CNPJ identifiers from  *)
(* the sheet CNPJ of CNPJ.xlsx, looks each one up at the ReceitaWS         *)
(* registry, formats the returned record to ten fields and appends the     *)
(* formatted rows to the sheet Dados of the same file.                     *)
(*                                                                         *)
(* Data representation                                                     *)
(*   - a Python str used as an identifier is a sequence of code points;    *)
(*   - a JSON value is tagged: Str(s), Lst(l), Obj(d), Null; a dict d is   *)
(*     a function from its keys to JSON values;                            *)
(*   - a worksheet is the sequence of its rows 1..max occupied row, a row  *)
(*     being the sequence of its cells and <<>> a row without cells;       *)
(*   - a workbook (the xlsx file) is a function from sheet names to        *)
(*     [kind, rows].                                                       *)
(***************************************************************************)
EXTENDS Integers, Sequences, FiniteSets, TLC

VARIABLES
    norm_in,      \* limpar_cnpj: the raw identifier handed to it
    norm_out,     \* limpar_cnpj: its result (set when pc leaves the call)
    fmt_in,       \* formatar_dados: the record handed to it
    fmt_out,      \* formatar_dados: its outcome (set when pc leaves the call)
    arquivo,      \* the xlsx file on disk
    arquivo0,     \* the xlsx file as it was when the behaviour started
    chamadas,     \* log of the salvar_dados_empresa_excel invocations
    planilha,     \* column CNPJ of sheet CNPJ as read by read_excel
    i,            \* position of the driver loop in the non-blank identifiers
    resultados,   \* the driver's list `resultados`
    consultas,    \* log of the lookups made by the driver loop
    pc,           \* where the script is
    erro          \* the exception that ended the script ("" if none)

vars == <<norm_in, norm_out, fmt_in, fmt_out, arquivo, arquivo0, chamadas,
          planilha, i, resultados, consultas, pc, erro>>

-----------------------------------------------------------------------------
(* Bounds *)

MaxLen == 3        \* longest raw identifier explored for limpar_cnpj
MaxLote == 2       \* most rows in a batch handed to the appender
MaxChamadas == 2   \* most appender invocations in one behaviour
MaxIds == 2        \* most cells in the input column of a run

-----------------------------------------------------------------------------
(* JSON values *)

Str(s) == [str |-> s]
Lst(l) == [list |-> l]
Obj(d) == [obj |-> d]
Null == [null |-> TRUE]

IsStr(v) == DOMAIN v = {"str"}
IsLst(v) == DOMAIN v = {"list"}
IsObj(v) == DOMAIN v = {"obj"}
IsNull(v) == DOMAIN v = {"null"}

\* Python truth value of a JSON value
Truthy(v) ==
    IF IsStr(v) THEN v.str # ""
    ELSE IF IsLst(v) THEN Len(v.list) > 0
    ELSE IF IsObj(v) THEN DOMAIN v.obj # {}
    ELSE FALSE

-----------------------------------------------------------------------------
(* limpar_cnpj *)

\* Code points used in the explored identifiers:
\* '0' '1' '9' '.' '/' '-' 'a' and the non-ASCII digits U+00B2 (superscript
\* two) and U+0663 (ARABIC-INDIC DIGIT THREE).
Alphabet == {48, 49, 57, 46, 47, 45, 97, 178, 1635}

AsciiDigits == 48..57

\* str.isdigit(c): true of every code point whose Unicode Numeric_Type is
\* Digit or Decimal (CPython 3.11, Unicode 14).  DigitRanges lists the
\* ranges <<first, last>> of those code points.
DigitRanges ==
    {
     <<48, 57>>, <<178, 179>>, <<185, 185>>, <<1632, 1641>>, <<1776,
     1785>>, <<1984, 1993>>, <<2406, 2415>>, <<2534, 2543>>, <<2662,
     2671>>, <<2790, 2799>>, <<2918, 2927>>, <<3046, 3055>>, <<3174,
     3183>>, <<3302, 3311>>, <<3430, 3439>>, <<3558, 3567>>, <<3664,
     3673>>, <<3792, 3801>>, <<3872, 3881>>, <<4160, 4169>>, <<4240,
     4249>>, <<4969, 4977>>, <<6112, 6121>>, <<6160, 6169>>, <<6470,
     6479>>, <<6608, 6618>>, <<6784, 6793>>, <<6800, 6809>>, <<6992,
     7001>>, <<7088, 7097>>, <<7232, 7241>>, <<7248, 7257>>, <<8304,
     8304>>, <<8308, 8313>>, <<8320, 8329>>, <<9312, 9320>>, <<9332,
     9340>>, <<9352, 9360>>, <<9450, 9450>>, <<9461, 9469>>, <<9471,
     9471>>, <<10102, 10110>>, <<10112, 10120>>, <<10122, 10130>>, <<42528,
     42537>>, <<43216, 43225>>, <<43264, 43273>>, <<43472, 43481>>,
     <<43504, 43513>>, <<43600, 43609>>, <<44016, 44025>>, <<65296,
     65305>>, <<66720, 66729>>, <<68160, 68163>>, <<68912, 68921>>,
     <<69216, 69224>>, <<69714, 69722>>, <<69734, 69743>>, <<69872,
     69881>>, <<69942, 69951>>, <<70096, 70105>>, <<70384, 70393>>,
     <<70736, 70745>>, <<70864, 70873>>, <<71248, 71257>>, <<71360,
     71369>>, <<71472, 71481>>, <<71904, 71913>>, <<72016, 72025>>,
     <<72784, 72793>>, <<73040, 73049>>, <<73120, 73129>>, <<92768,
     92777>>, <<92864, 92873>>, <<93008, 93017>>, <<120782, 120831>>,
     <<123200, 123209>>, <<123632, 123641>>, <<125264, 125273>>, <<127232,
     127242>>, <<130032, 130041>>
    }

isdigit(c) == \E r \in DigitRanges : r[1] <= c /\ c <= r[2]

RECURSIVE filter(_, _)
filter(s, k) ==
    IF k > Len(s) THEN <<>>
    ELSE IF isdigit(s[k]) THEN <<s[k]>> \o filter(s, k + 1)
    ELSE filter(s, k + 1)

\* ''.join(filter(str.isdigit, cnpj))
limpar_cnpj(cnpj) == filter(cnpj, 1)

\* every code point of s can be encoded as ASCII
IsAscii(s) == \A k \in 1..Len(s) : s[k] < 128

Strings(n) == UNION {[1..m -> Alphabet] : m \in 0..n}

-----------------------------------------------------------------------------
(* formatar_dados *)

campos_interesse ==
    <<"cnpj", "nome", "telefone", "email", "logradouro", "bairro",
      "municipio", "uf", "cep", "atividade_principal">>

Campos == {campos_interesse[k] : k \in 1..Len(campos_interesse)}

\* dict.get(chave, '') on a JSON object
get(d, chave) == IF chave \in DOMAIN d THEN d[chave] ELSE Str("")

\* the guard of line 179: the key is present and its value is truthy
tem_atividade(empresa) ==
    /\ "atividade_principal" \in DOMAIN empresa
    /\ Truthy(empresa["atividade_principal"])

\* The exception formatar_dados raises on empresa, "" when it returns.
\* Line 180 indexes the value with [0] and calls .get on the result: a dict
\* has no key 0, the first character of a str and a str or null list element
\* have no attribute get.
formatar_dados_erro(empresa) ==
    IF ~tem_atividade(empresa) THEN ""
    ELSE IF IsObj(empresa["atividade_principal"]) THEN "KeyError"
    ELSE IF IsStr(empresa["atividade_principal"]) THEN "AttributeError"
    ELSE IF ~IsObj(empresa["atividade_principal"].list[1]) THEN "AttributeError"
    ELSE ""

\* The dict formatar_dados returns (when it does not raise).
formatar_dados(empresa) ==
    [campo \in Campos |->
        IF campo = "atividade_principal" /\ tem_atividade(empresa)
        THEN get(empresa["atividade_principal"].list[1].obj, "text")
        ELSE get(empresa, campo)]

-----------------------------------------------------------------------------
(* The workbook and salvar_dados_empresa_excel *)

Max(a, b) == IF a >= b THEN a ELSE b

NCols == Len(campos_interesse)

\* pd.DataFrame(resultados): one row per dict, the columns in key order
DataFrame(res) ==
    [k \in 1..Len(res) |-> [j \in 1..NCols |-> res[k][campos_interesse[j]]]]

\* the header row to_excel writes: the column names
cabecalho == [j \in 1..NCols |-> Str(campos_interesse[j])]

\* str(v), the text of a value that is not a str: '[]' for the empty list,
\* '{}' for the empty dict, and the text of v (kept as such) otherwise
Texto(v) ==
    IF v = Lst(<<>>) THEN Str("[]")
    ELSE IF IsObj(v) /\ DOMAIN v.obj = {} THEN Str("{}")
    ELSE [repr |-> v]

\* the value to_excel stores in a cell: a missing value becomes na_rep,
\* which is ''; a str stays; any other object is stored as its text
\* (ExcelWriter._value_with_fmt ends in val = str(val))
Celula(v) ==
    IF IsNull(v) THEN Str("")
    ELSE IF IsStr(v) THEN v
    ELSE Texto(v)

\* Worksheet.max_row: the largest row index that has a cell, 1 on a sheet
\* without cells
max_row(rows) == IF Len(rows) = 0 THEN 1 ELSE Len(rows)

\* writing the cells of `nova` over the row `velha` (if_sheet_exists =
\* 'overlay': the cells written replace, the others stay)
sobrepor(velha, nova) ==
    [j \in 1..Max(Len(velha), Len(nova)) |->
        IF j <= Len(nova) THEN nova[j] ELSE velha[j]]

\* the sheet `rows` after the rows W are written from the 0-based row
\* startrow on
escrever(rows, startrow, W) ==
    [k \in 1..Max(Len(rows), startrow + Len(W)) |->
        IF k > startrow /\ k <= startrow + Len(W)
        THEN sobrepor(IF k <= Len(rows) THEN rows[k] ELSE <<>>, W[k - startrow])
        ELSE IF k <= Len(rows) THEN rows[k] ELSE <<>>]

\* the body rows to_excel writes: one per DataFrame row, cell by cell
corpo_escrito(df) ==
    [k \in 1..Len(df) |-> [j \in 1..NCols |-> Celula(df[k][j])]]

\* DataFrame.to_excel(writer, sheet_name, index=False, header, startrow) on
\* the open workbook: the sheet is created when the workbook has none of
\* that name
to_excel(book, df, sheet_name, header, startrow) ==
    LET velhas == IF sheet_name \in DOMAIN book
                  THEN book[sheet_name].rows ELSE <<>>
        W == (IF header THEN <<cabecalho>> ELSE <<>>) \o corpo_escrito(df)
    IN [livro |->
          [n \in DOMAIN book \cup {sheet_name} |->
              IF n = sheet_name
              THEN [kind |-> "worksheet",
                    rows |-> escrever(velhas, startrow, W)]
              ELSE book[n]],
        exc |-> ""]

\* writer.book[nome_aba] of line 222, the probe for the target sheet: the
\* exception it raises, "" when the workbook has a sheet of that name
sonda(book, nome_aba) == IF nome_aba \in DOMAIN book THEN "" ELSE "KeyError"

\* Variants of salvar_dados_empresa_excel with a plausible slip each: the
\* header written on the sheet-exists path too; the write started on the
\* last occupied row instead of after it; the KeyError not caught.
salvar_cabecalho_sempre(df, arq, nome_aba, abre) ==
    IF ~abre THEN [livro |-> arq, exc |-> "OSError"]
    ELSE IF sonda(arq, nome_aba) = ""
    THEN IF arq[nome_aba].kind = "chartsheet"
         THEN [livro |-> arq, exc |-> "AttributeError"]
         ELSE to_excel(arq, df, nome_aba, TRUE, max_row(arq[nome_aba].rows))
    ELSE to_excel(arq, df, nome_aba, TRUE, 0)

salvar_sobre_ultima(df, arq, nome_aba, abre) ==
    IF ~abre THEN [livro |-> arq, exc |-> "OSError"]
    ELSE IF sonda(arq, nome_aba) = ""
    THEN IF arq[nome_aba].kind = "chartsheet"
         THEN [livro |-> arq, exc |-> "AttributeError"]
         ELSE to_excel(arq, df, nome_aba, FALSE,
                       max_row(arq[nome_aba].rows) - 1)
    ELSE to_excel(arq, df, nome_aba, TRUE, 0)

salvar_sem_except(df, arq, nome_aba, abre) ==
    IF ~abre THEN [livro |-> arq, exc |-> "OSError"]
    ELSE IF sonda(arq, nome_aba) = ""
    THEN IF arq[nome_aba].kind = "chartsheet"
         THEN [livro |-> arq, exc |-> "AttributeError"]
         ELSE to_excel(arq, df, nome_aba, FALSE, max_row(arq[nome_aba].rows))
    ELSE [livro |-> arq, exc |-> "KeyError"]

\* salvar_dados_empresa_excel(resultados, nome_arquivo, nome_aba) on the
\* file arq; abre tells whether ExcelWriter can open the file.  The probe
\* finds a worksheet or a chartsheet of that name; a chartsheet has no
\* max_row (line 226 raises AttributeError, which line 236 does not catch).
\* The workbook is saved when the with block is left, also by an exception.
salvar_dados_empresa_excel(df, arq, nome_aba, abre) ==
    IF ~abre THEN [livro |-> arq, exc |-> "OSError"]
    ELSE IF sonda(arq, nome_aba) = ""
    THEN IF arq[nome_aba].kind = "chartsheet"
         THEN [livro |-> arq, exc |-> "AttributeError"]
         ELSE to_excel(arq, df, nome_aba, FALSE, max_row(arq[nome_aba].rows))
    ELSE to_excel(arq, df, nome_aba, TRUE, 0)

-----------------------------------------------------------------------------
(* obter_dados_empresa_por_cnpj *)

\* What the network does for one request.
\*   SemResposta: nothing is sent, request() cannot encode the request line.
\*   Falha(e): request() or getresponse() raises e: "OSError" (or a subclass:
\*     name resolution, refused or reset connection, timeout, TLS), or
\*     "BadStatusLine" (an http.client.HTTPException: the peer's answer does
\*     not start with an HTTP status line).
\*   Http(status, corpo): a response arrives with a status and a body.
\* A body is Incompleto (read() raises IncompleteRead), NaoUtf8 (bytes that
\* are not UTF-8), NaoJson (UTF-8 text that is not JSON), Null (the JSON
\* null) or Obj(d).
Incompleto == [invalido |-> "incompleto"]
NaoUtf8 == [invalido |-> "utf8"]
NaoJson == [invalido |-> "json"]
IsInvalido(v) == DOMAIN v = {"invalido"}

SemResposta == [tipo |-> "sem_resposta", causa |-> "", status |-> 0,
                corpo |-> Incompleto]
Falha(e) == [tipo |-> "falha", causa |-> e, status |-> 0, corpo |-> Incompleto]
Http(status, corpo) ==
    [tipo |-> "http", causa |-> "", status |-> status, corpo |-> corpo]

\* Python's None as a return value
None == Null

\* the exception lines 117-126 raise on a body that is not a JSON document:
\* resposta.read(), then dados.decode("utf-8"), then json.loads
erro_do_corpo(b) ==
    IF b = Incompleto THEN "IncompleteRead"
    ELSE IF b = NaoUtf8 THEN "UnicodeDecodeError"
    ELSE "JSONDecodeError"

\* Variant of obter_dados_empresa_por_cnpj that absorbs the decoding errors
\* and returns None, as its docstring describes.
obter_recupera_json(cnpj, resp) ==
    IF ~IsAscii(limpar_cnpj(cnpj))
    THEN [exc |-> "UnicodeEncodeError", retorno |-> None]
    ELSE IF resp.tipo = "falha" THEN [exc |-> resp.causa, retorno |-> None]
    ELSE IF resp.status # 200 THEN [exc |-> "", retorno |-> None]
    ELSE IF resp.corpo = Incompleto
    THEN [exc |-> "IncompleteRead", retorno |-> None]
    ELSE IF IsInvalido(resp.corpo) THEN [exc |-> "", retorno |-> None]
    ELSE IF IsNull(resp.corpo) THEN [exc |-> "TypeError", retorno |-> None]
    ELSE IF /\ "status" \in DOMAIN resp.corpo.obj
            /\ resp.corpo.obj["status"] = Str("ERROR")
    THEN [exc |-> "", retorno |-> None]
    ELSE [exc |-> "", retorno |-> resp.corpo]

\* obter_dados_empresa_por_cnpj(cnpj) when the network answers resp:
\* [exc |-> the exception raised or "", retorno |-> the value returned].
\* request() encodes the request line as ASCII before anything is sent;
\* nothing between lines 93 and 126 is inside a try.
obter_dados_empresa_por_cnpj(cnpj, resp) ==
    IF ~IsAscii(limpar_cnpj(cnpj))
    THEN [exc |-> "UnicodeEncodeError", retorno |-> None]
    ELSE IF resp.tipo = "falha" THEN [exc |-> resp.causa, retorno |-> None]
    ELSE IF resp.status # 200 THEN [exc |-> "", retorno |-> None]
    ELSE IF IsInvalido(resp.corpo)
    THEN [exc |-> erro_do_corpo(resp.corpo), retorno |-> None]
    ELSE IF IsNull(resp.corpo) THEN [exc |-> "TypeError", retorno |-> None]
    ELSE IF /\ "status" \in DOMAIN resp.corpo.obj
            /\ resp.corpo.obj["status"] = Str("ERROR")
    THEN [exc |-> "", retorno |-> None]
    ELSE [exc |-> "", retorno |-> resp.corpo]

-----------------------------------------------------------------------------
(* The driver (module level of main.py) *)

caminho_planilha == "CNPJ.xlsx"
AbaDados == "Dados"
AbaCnpj == "CNPJ"

\* a str cell given by its code points
Cp(s) == [cp |-> s]

\* pd.read_excel(caminho_planilha, sheet_name='CNPJ', dtype={'CNPJ': str}):
\* the cells of column CNPJ below the header, Null for a blank cell
read_excel(arq) ==
    [k \in 1..(Len(arq[AbaCnpj].rows) - 1) |-> arq[AbaCnpj].rows[k + 1][1]]

\* Series.dropna(): the non-blank cells, in order
RECURSIVE dropna(_)
dropna(col) ==
    IF col = <<>> THEN <<>>
    ELSE IF IsNull(Head(col)) THEN dropna(Tail(col))
    ELSE <<Head(col).cp>> \o dropna(Tail(col))

\* the test of line 280, `if dados_empresa:`
valido(dados_empresa) == Truthy(dados_empresa)

-----------------------------------------------------------------------------
(* Inputs explored *)

\* records (dicts) as the registry may return them
RCompleta ==
    [cnpj |-> Str("11222333000181"), nome |-> Str("ACME"),
     status |-> Str("OK"), uf |-> Str("SP"),
     atividade_principal |-> Lst(<<Obj([text |-> Str("Comercio")])>>)]
RSimples == [nome |-> Str("B"), fantasia |-> Str("X")]
RSoFantasia == [fantasia |-> Str("X")]
RVazia == [k \in {} |-> Null]
RListaVazia == [nome |-> Str("C"), atividade_principal |-> Lst(<<>>)]
RErro == [status |-> Str("ERROR"), message |-> Str("CNPJ invalido")]

\* values a key of a record handed to formatar_dados may hold
ValoresDe(chave) ==
    CASE chave = "cnpj" -> {Str("11222333000181")}
      [] chave = "nome" -> {Str("ACME"), Null}
      [] chave = "fantasia" -> {Str("X")}
      [] chave = "atividade_principal" ->
            {Lst(<<>>),
             Lst(<<Obj([text |-> Str("Comercio")])>>),
             Lst(<<Obj([code |-> Str("47.11-3-02")])>>),
             Lst(<<Obj([text |-> Str("A")]), Obj([text |-> Str("B")])>>),
             Lst(<<Str("Comercio")>>),
             Str("Comercio"),
             Str(""),
             Obj([text |-> Str("Comercio")]),
             Null}

ChavesExploradas == {"cnpj", "nome", "fantasia", "atividade_principal"}

Empresas ==
    UNION {{d \in [D -> UNION {ValoresDe(c) : c \in D}] :
                \A c \in D : d[c] \in ValoresDe(c)} :
           D \in SUBSET ChavesExploradas}

\* what the network may answer to one request
Respostas ==
    {Falha("OSError"), Falha("BadStatusLine"), Http(404, NaoJson),
     Http(200, Incompleto), Http(200, NaoUtf8), Http(200, NaoJson),
     Http(200, Null), Http(200, Obj(RErro)), Http(200, Obj(RVazia)), Http(200, Obj(RCompleta)),
     Http(200, Obj(RSimples)), Http(200, Obj(RListaVazia))}

\* cells of the input column: blank, '1.9', and the superscript two
CelulasCnpj == {Null, Cp(<<49, 46, 57>>), Cp(<<178>>)}

Colunas(n) == UNION {[1..m -> CelulasCnpj] : m \in 0..n}

\* sheet CNPJ holding the column col (and a second column)
AbaDeEntrada(col) ==
    [kind |-> "worksheet",
     rows |-> <<<<Str("CNPJ"), Str("Obs")>>>>
              \o [k \in 1..Len(col) |-> <<col[k], Str("x")>>]]

\* rows a DataFrame handed to the appender may hold: two rows of plain
\* strings, and a row whose atividade_principal is the empty list (what
\* formatar_dados returns for it)
LinhasDeLote ==
    {DataFrame(<<formatar_dados(r)>>)[1] : r \in {RCompleta, RSoFantasia}}

LinhaComLista == DataFrame(<<formatar_dados(RListaVazia)>>)[1]

Lotes(n) ==
    UNION {[1..m -> LinhasDeLote] : m \in 1..n}
    \cup {<<LinhaComLista>>}
    \cup {<<l, LinhaComLista>> : l \in LinhasDeLote}

LinhaAntiga == [j \in 1..NCols |-> Str("antiga")]

\* the sheet Dados before the behaviour: a worksheet without cells, with a
\* header, with a header and a row, with a row and no header, or a
\* chartsheet of that name
AbasDadosIniciais ==
    {[kind |-> "worksheet", rows |-> <<>>],
     [kind |-> "worksheet", rows |-> <<cabecalho>>],
     [kind |-> "worksheet", rows |-> <<cabecalho, LinhaAntiga>>],
     [kind |-> "worksheet", rows |-> <<LinhaAntiga>>],
     [kind |-> "chartsheet", rows |-> <<>>]}

\* the files: sheet CNPJ with the column col, and sheet Dados or not
Arquivos(col) ==
    {[n \in {AbaCnpj} |-> AbaDeEntrada(col)]}
    \cup {[n \in {AbaCnpj, AbaDados} |->
              IF n = AbaCnpj THEN AbaDeEntrada(col) ELSE d] :
           d \in AbasDadosIniciais}

ColunaFixa == <<Cp(<<49, 46, 57>>)>>

-----------------------------------------------------------------------------
(* Specification of limpar_cnpj applied to a raw identifier *)

Parado ==
    /\ arquivo0 = arquivo
    /\ chamadas = <<>>
    /\ planilha = <<>>
    /\ i = 1
    /\ resultados = <<>>
    /\ consultas = <<>>
    /\ erro = ""

InitNorm ==
    /\ norm_in \in Strings(MaxLen)
    /\ norm_out = <<>>
    /\ fmt_in = RVazia
    /\ fmt_out = [exc |-> "", valor |-> formatar_dados(RVazia)]
    /\ arquivo \in {[n \in {AbaCnpj} |-> AbaDeEntrada(ColunaFixa)]}
    /\ Parado
    /\ pc = "norm"

Limpar ==
    /\ pc = "norm"
    /\ norm_out' = limpar_cnpj(norm_in)
    /\ pc' = "norm_done"
    /\ UNCHANGED <<norm_in, fmt_in, fmt_out, arquivo, arquivo0, chamadas,
                   planilha, i, resultados, consultas, erro>>

NextNorm == Limpar

SpecNorm == InitNorm /\ [][NextNorm]_vars

-----------------------------------------------------------------------------
(* Specification of formatar_dados applied to a record *)

InitFmt ==
    /\ norm_in = <<>>
    /\ norm_out = <<>>
    /\ fmt_in \in Empresas
    /\ fmt_out = [exc |-> "", valor |-> formatar_dados(RVazia)]
    /\ arquivo \in {[n \in {AbaCnpj} |-> AbaDeEntrada(ColunaFixa)]}
    /\ Parado
    /\ pc = "fmt"

Formatar ==
    /\ pc = "fmt"
    /\ fmt_out' =
          IF formatar_dados_erro(fmt_in) # ""
          THEN [exc |-> formatar_dados_erro(fmt_in),
                valor |-> formatar_dados(RVazia)]
          ELSE [exc |-> "", valor |-> formatar_dados(fmt_in)]
    /\ pc' = "fmt_done"
    /\ UNCHANGED <<norm_in, norm_out, fmt_in, arquivo, arquivo0, chamadas,
                   planilha, i, resultados, consultas, erro>>

NextFmt == Formatar

SpecFmt == InitFmt /\ [][NextFmt]_vars

-----------------------------------------------------------------------------
(* Specification of repeated salvar_dados_empresa_excel invocations *)

InitAppend ==
    /\ norm_in = <<>>
    /\ norm_out = <<>>
    /\ fmt_in = RVazia
    /\ fmt_out = [exc |-> "", valor |-> formatar_dados(RVazia)]
    /\ arquivo \in Arquivos(ColunaFixa)
    /\ Parado
    /\ pc = "append"

\* one invocation salvar_dados_empresa_excel(lote, caminho_planilha)
Salvar ==
    /\ pc = "append"
    /\ Len(chamadas) < MaxChamadas
    /\ \E lote \in Lotes(MaxLote), abre \in BOOLEAN :
          LET r == salvar_dados_empresa_excel(lote, arquivo, AbaDados, abre)
          IN /\ arquivo' = r.livro
             /\ chamadas' = Append(chamadas,
                    [lote |-> lote, antes |-> arquivo, abre |-> abre,
                     exc |-> r.exc])
    /\ UNCHANGED <<norm_in, norm_out, fmt_in, fmt_out, arquivo0, planilha,
                   i, resultados, consultas, pc, erro>>

NextAppend == Salvar

SpecAppend == InitAppend /\ [][NextAppend]_vars

-----------------------------------------------------------------------------
(* Specification of one run of the script *)

InitRun ==
    /\ norm_in = <<>>
    /\ norm_out = <<>>
    /\ fmt_in = RVazia
    /\ fmt_out = [exc |-> "", valor |-> formatar_dados(RVazia)]
    /\ \E col \in Colunas(MaxIds) : arquivo \in Arquivos(col)
    /\ arquivo0 = arquivo
    /\ chamadas = <<>>
    /\ planilha = read_excel(arquivo)
    /\ i = 1
    /\ resultados = <<>>
    /\ consultas = <<>>
    /\ erro = ""
    /\ pc = "loop"

\* one iteration of the for loop of lines 268-287 on the next non-blank
\* identifier, the network answering resp (SemResposta exactly when the
\* request line cannot be encoded)
Consultar ==
    /\ pc = "loop"
    /\ i <= Len(dropna(planilha))
    /\ \E resp \in Respostas \cup {SemResposta} :
          LET cnpj == dropna(planilha)[i]
              r == obter_dados_empresa_por_cnpj(cnpj, resp)
              ferr == IF r.exc = "" /\ valido(r.retorno)
                      THEN formatar_dados_erro(r.retorno.obj) ELSE ""
              falhou == IF r.exc # "" THEN r.exc ELSE ferr
          IN /\ IsAscii(limpar_cnpj(cnpj)) <=> resp # SemResposta
             /\ consultas' = Append(consultas,
                    [cnpj |-> cnpj, resp |-> resp, exc |-> r.exc,
                     retorno |-> r.retorno])
             /\ IF falhou # ""
                THEN /\ pc' = "crashed"
                     /\ erro' = falhou
                     /\ UNCHANGED <<i, resultados>>
                ELSE /\ resultados' =
                          IF valido(r.retorno)
                          THEN Append(resultados, formatar_dados(r.retorno.obj))
                          ELSE resultados
                     /\ i' = i + 1
                     /\ UNCHANGED <<pc, erro>>
    /\ UNCHANGED <<norm_in, norm_out, fmt_in, fmt_out, arquivo, arquivo0,
                   chamadas, planilha>>

\* Variant of Gravar without the test `if resultados:`
GravarSempre ==
    /\ pc = "loop"
    /\ i > Len(dropna(planilha))
    /\ \E abre \in BOOLEAN :
          LET df == DataFrame(resultados)
              r == salvar_dados_empresa_excel(df, arquivo, AbaDados, abre)
          IN /\ arquivo' = r.livro
             /\ chamadas' = Append(chamadas,
                    [lote |-> df, antes |-> arquivo, abre |-> abre,
                        exc |-> r.exc])
             /\ pc' = IF r.exc # "" THEN "crashed" ELSE "fim"
             /\ erro' = r.exc
    /\ UNCHANGED <<norm_in, norm_out, fmt_in, fmt_out, arquivo0, planilha,
                   i, resultados, consultas>>

\* lines 293-308, after the loop: the batch is saved if it is not empty
Gravar ==
    /\ pc = "loop"
    /\ i > Len(dropna(planilha))
    /\ IF resultados # <<>>
       THEN \E abre \in BOOLEAN :
              LET df == DataFrame(resultados)
                  r == salvar_dados_empresa_excel(df, arquivo, AbaDados, abre)
              IN /\ arquivo' = r.livro
                 /\ chamadas' = Append(chamadas,
                        [lote |-> df, antes |-> arquivo, abre |-> abre,
                        exc |-> r.exc])
                 /\ pc' = IF r.exc # "" THEN "crashed" ELSE "fim"
                 /\ erro' = r.exc
       ELSE /\ pc' = "fim"
            /\ UNCHANGED <<arquivo, chamadas, erro>>
    /\ UNCHANGED <<norm_in, norm_out, fmt_in, fmt_out, arquivo0, planilha,
                   i, resultados, consultas>>

\* line 312: the completion line is printed
Concluir ==
    /\ pc = "fim"
    /\ pc' = "done"
    /\ UNCHANGED <<norm_in, norm_out, fmt_in, fmt_out, arquivo, arquivo0,
                   chamadas, planilha, i, resultados, consultas, erro>>

NextRun == Consultar \/ Gravar \/ Concluir

SpecRun == InitRun /\ [][NextRun]_vars

-----------------------------------------------------------------------------
(* Properties of salvar_dados_empresa_excel, under SpecAppend *)

\* the file after the k-th logged invocation
Depois(k) == IF k < Len(chamadas) THEN chamadas[k + 1].antes ELSE arquivo

\* every cell of the batch is a plain string
SoTexto(df) == \A k \in 1..Len(df) : \A j \in 1..NCols : IsStr(df[k][j])

\* C1: two separate invocations with non-empty batches B1 then B2 on a file
\* without the target sheet leave the sheet with one header row, at the top,
\* then B1's rows, then B2's rows, in order, with no blank, duplicated or
\* missing row: the content a single invocation with B1 followed by B2 gives.
\* (A cell that is not a string appears as its text.)
C1_DoisLotes ==
    (/\ Len(chamadas) = 2
     /\ AbaDados \notin DOMAIN arquivo0
     /\ chamadas[1].abre /\ chamadas[2].abre)
    => LET B1 == chamadas[1].lote
           B2 == chamadas[2].lote
           rows == arquivo[AbaDados].rows
       IN /\ chamadas[1].exc = "" /\ chamadas[2].exc = ""
          /\ rows = <<cabecalho>> \o corpo_escrito(B1) \o corpo_escrito(B2)
          /\ (SoTexto(B1) /\ SoTexto(B2)) => rows = <<cabecalho>> \o B1 \o B2
          /\ Cardinality({k \in 1..Len(rows) : rows[k] = cabecalho}) = 1
          /\ \A k \in 1..Len(rows) : rows[k] # <<>>
          /\ arquivo =
               salvar_dados_empresa_excel(B1 \o B2, arquivo0, AbaDados,
                                          TRUE).livro

C1_Witness ==
    /\ Len(chamadas) = 2
    /\ AbaDados \notin DOMAIN arquivo0
    /\ chamadas[1].abre /\ chamadas[2].abre
    /\ SoTexto(chamadas[1].lote) /\ SoTexto(chamadas[2].lote)
    /\ Len(chamadas[1].lote) = 2
    /\ chamadas[1].lote[1] # chamadas[1].lote[2]
    /\ chamadas[1].lote # chamadas[2].lote
    /\ Len(arquivo[AbaDados].rows) = 1 + 2 + Len(chamadas[2].lote)

\* C2: an invocation keeps every row the target sheet had, at its position
\* and with its cells, and leaves every other sheet of the file as it was.
C2_Preserva ==
    \A k \in 1..Len(chamadas) :
        LET antes == chamadas[k].antes
            depois == Depois(k)
        IN /\ DOMAIN antes \subseteq DOMAIN depois
           /\ DOMAIN depois \subseteq DOMAIN antes \cup {AbaDados}
           /\ \A n \in DOMAIN antes \ {AbaDados} : depois[n] = antes[n]
           /\ AbaDados \in DOMAIN antes =>
                /\ depois[AbaDados].kind = antes[AbaDados].kind
                /\ Len(depois[AbaDados].rows) >= Len(antes[AbaDados].rows)
                /\ \A r \in 1..Len(antes[AbaDados].rows) :
                      depois[AbaDados].rows[r] = antes[AbaDados].rows[r]

C2_Witness ==
    \E k \in 1..Len(chamadas) :
        /\ AbaDados \in DOMAIN chamadas[k].antes
        /\ Len(chamadas[k].antes[AbaDados].rows) >= 2
        /\ chamadas[k].exc = ""
        /\ Len(Depois(k)[AbaDados].rows)
             = Len(chamadas[k].antes[AbaDados].rows) + Len(chamadas[k].lote)

\* C5: an invocation that cannot open the file fails, the error reaches
\* the caller and nothing is written; a failure of the probe for the target
\* sheet (line 222, whose failure is the KeyError for a workbook without a
\* sheet of that name) is not rethrown and is handled as the sheet-absent
\* path: the sheet is created and the rows are written once, under a header.
C5_FalhaDaSonda ==
    \A k \in 1..Len(chamadas) :
        LET antes == chamadas[k].antes
            depois == Depois(k)
        IN /\ ~chamadas[k].abre =>
                chamadas[k].exc = "OSError" /\ depois = antes
           /\ (chamadas[k].abre /\ sonda(antes, AbaDados) # "") =>
                /\ chamadas[k].exc = ""
                /\ AbaDados \in DOMAIN depois
                /\ depois[AbaDados].kind = "worksheet"
                /\ depois[AbaDados].rows
                     = <<cabecalho>> \o corpo_escrito(chamadas[k].lote)
                /\ SoTexto(chamadas[k].lote) =>
                     depois[AbaDados].rows = <<cabecalho>> \o chamadas[k].lote
                /\ \A n \in DOMAIN antes : depois[n] = antes[n]

C5_Witness ==
    /\ Len(chamadas) = 2
    /\ chamadas[1].abre
    /\ sonda(chamadas[1].antes, AbaDados) = "KeyError"
    /\ SoTexto(chamadas[1].lote)
    /\ Len(arquivo[AbaDados].rows) = 1 + Len(chamadas[1].lote)
    /\ ~chamadas[2].abre
    /\ chamadas[2].exc = "OSError"
    /\ arquivo = chamadas[2].antes

\* C9 as stated: on the sheet-exists path, whatever the sheet holds (also
\* no row, or rows without a header), no header is written and the batch
\* rows follow the last occupied row immediately, contiguous.
C9_AposUltima ==
    \A k \in 1..Len(chamadas) :
        LET antes == chamadas[k].antes
        IN (/\ chamadas[k].abre
            /\ AbaDados \in DOMAIN antes
            /\ antes[AbaDados].kind = "worksheet")
           => Depois(k)[AbaDados].rows
                = antes[AbaDados].rows \o corpo_escrito(chamadas[k].lote)

-----------------------------------------------------------------------------
(* Properties of limpar_cnpj, under SpecNorm *)

\* C8 as stated: the result holds only the ASCII characters 0-9 and is the
\* subsequence of the ASCII digits of the input, in order (so no longer than
\* the input; empty for an input without digits).
C8_SoAscii ==
    pc = "norm_done" =>
        /\ \A k \in 1..Len(norm_out) : norm_out[k] \in AsciiDigits
        /\ norm_out = SelectSeq(norm_in, LAMBDA c : c \in AsciiDigits)
        /\ Len(norm_out) <= Len(norm_in)

-----------------------------------------------------------------------------
(* Properties of formatar_dados, under SpecFmt *)

\* the activity field the claim describes for the record d
AtividadeEsperada(d) ==
    IF "atividade_principal" \notin DOMAIN d THEN Str("")
    ELSE IF ~IsLst(d["atividade_principal"]) THEN Str("")
    ELSE IF Len(d["atividade_principal"].list) = 0 THEN Str("")
    ELSE IF ~IsObj(d["atividade_principal"].list[1]) THEN Str("")
    ELSE IF "text" \in DOMAIN d["atividade_principal"].list[1].obj
    THEN d["atividade_principal"].list[1].obj["text"]
    ELSE Str("")

\* C7 as stated: formatar_dados returns on every record, with the ten fields;
\* a field absent from the record is ''; atividade_principal is the 'text'
\* of the first element of a non-empty list ('' without 'text') and '' when
\* the list is empty or the field absent.
C7_Total ==
    pc = "fmt_done" =>
        /\ fmt_out.exc = ""
        /\ DOMAIN fmt_out.valor = Campos
        /\ \A c \in Campos \ DOMAIN fmt_in : c # "atividade_principal" =>
              fmt_out.valor[c] = Str("")
        /\ \A c \in (Campos \cap DOMAIN fmt_in) \ {"atividade_principal"} :
              fmt_out.valor[c] = fmt_in[c]
        /\ ("atividade_principal" \notin DOMAIN fmt_in
               \/ IsLst(fmt_in["atividade_principal"])) =>
              fmt_out.valor["atividade_principal"] = AtividadeEsperada(fmt_in)

-----------------------------------------------------------------------------
(* Properties of a run, under SpecRun *)

\* the k-th lookup returned a record (not None)
RetornouRegistro(k) == consultas[k].exc = "" /\ IsObj(consultas[k].retorno)

\* the formatted records of the lookups 1..n that returned a record
RECURSIVE Formatados(_)
Formatados(n) ==
    IF n = 0 THEN <<>>
    ELSE IF RetornouRegistro(n)
    THEN Append(Formatados(n - 1), formatar_dados(consultas[n].retorno.obj))
    ELSE Formatados(n - 1)

\* C3 as stated: resultados is, in input order, the formatted record of each
\* identifier whose lookup returned a record, one row each, none for the
\* others, and never longer than the number of non-blank identifiers.
C3_LoteExato ==
    /\ resultados = Formatados(Len(consultas))
    /\ Len(resultados) <= Len(dropna(planilha))

\* the k-th lookup met a transport or status error: the connection failed
\* while the request was sent or the response obtained (OSError or
\* BadStatusLine), or the status was not 200
ErroDeTransporte(k) ==
    \/ consultas[k].resp.tipo = "falha"
    \/ consultas[k].resp.tipo = "http" /\ consultas[k].resp.status # 200

\* C4 as stated: a transport or status error on an identifier is recovered:
\* the lookup raises nothing, adds nothing to resultados, and the run goes
\* on (it is not ended by that lookup).
C4_Recupera ==
    \A k \in 1..Len(consultas) :
        ErroDeTransporte(k) =>
            /\ consultas[k].exc = ""
            /\ IsNull(consultas[k].retorno)
            /\ ~(pc = "crashed" /\ k = Len(consultas) /\ chamadas = <<>>)

\* the k-th lookup received status 200 with a body that cannot be parsed:
\* bytes that are not UTF-8, or text that is not JSON
CorpoInvalido(k) ==
    /\ consultas[k].resp.tipo = "http"
    /\ consultas[k].resp.status = 200
    /\ consultas[k].resp.corpo \in {NaoUtf8, NaoJson}

\* C6: a lookup that receives 200 with an unparseable body ends the run
\* there: it is the last lookup, the script is stopped by the decoding
\* error (UnicodeDecodeError from decode, JSONDecodeError from json.loads),
\* the appender was never invoked, the file is as it was before the run and
\* the completion line is not printed.
C6_CorpoInvalidoFatal ==
    \A k \in 1..Len(consultas) :
        CorpoInvalido(k) =>
            /\ k = Len(consultas)
            /\ i = k
            /\ pc = "crashed"
            /\ consultas[k].exc = (IF consultas[k].resp.corpo = NaoUtf8
                                    THEN "UnicodeDecodeError"
                                    ELSE "JSONDecodeError")
            /\ erro = consultas[k].exc
            /\ chamadas = <<>>
            /\ arquivo = arquivo0

C6_Witness ==
    /\ Len(consultas) = 2
    /\ CorpoInvalido(2)
    /\ resultados # <<>>
    /\ pc = "crashed"

\* the for loop ran to its end
LoopTerminou == pc # "loop" /\ i > Len(dropna(planilha))

\* C10: the file is opened for writing at most once and only after the last
\* lookup: the appender is invoked once when the loop ends with a non-empty
\* resultados and never when it is empty, and then no sheet is created and
\* the file is as it was.
C10_UmaGravacao ==
    /\ Len(chamadas) <= 1
    /\ chamadas # <<>> =>
          /\ LoopTerminou
          /\ Len(consultas) = Len(dropna(planilha))
          /\ chamadas[1].lote = DataFrame(resultados)
    /\ LoopTerminou =>
          Len(chamadas) = (IF resultados # <<>> THEN 1 ELSE 0)
    /\ ~LoopTerminou => arquivo = arquivo0
    /\ (LoopTerminou /\ resultados = <<>>) =>
          /\ arquivo = arquivo0
          /\ pc \in {"fim", "done"}

C10_Witness ==
    /\ pc = "done"
    /\ Len(consultas) = 2
    /\ Len(chamadas) = 1
    /\ AbaDados \notin DOMAIN arquivo0
    /\ AbaDados \in DOMAIN arquivo

=============================================================================
